---------------------------- MODULE Spec2Model ----------------------------
(***************************************************************************)
(* Model of edgex_macd_stoch_alert_intrabar_render.py: the polling loop    *)
(* main(), the candle fetch fetch_kline(), the indicator functions ema(),  *)
(* rsi(), macd(), stoch_rsi_from_rsi(), the detector check_signal() and    *)
(* the notification sender tg_send().                                      *)
(*                                                                         *)
(* Numbers.  A float64 is modelled as a fixed-point integer holding Scale  *)
(* units per 1.0; every division rounds toward minus infinity.  The        *)
(* undefined value (np.nan) is the integer NaN, which no computed value    *)
(* reaches; every arithmetic operator and every comparison tests for it,   *)
(* as IEEE arithmetic does (NaN propagates, every comparison with NaN is   *)
(* false).  A candle timestamp is counted in candle periods of 5 minutes   *)
(* (300000 ms) so that the largest instant datetime can represent fits.    *)
(***************************************************************************)
EXTENDS Integers, Sequences, FiniteSets

Scale == 1000
NaN == -999999999

\* Program constants (lines 17-23).
MACD_FAST == 12
MACD_SLOW == 26
MACD_SIGNAL == 9
RSI_PERIOD == 14
RSI_FILTER == 50
STOCH_RSI_PERIOD == 14
STOCH_K_SMOOTH == 3
STOCH_D_SMOOTH == 3
K_OVERSOLD == 20
K_OVERBOUGHT == 80

\* The neutral value of line 74, 86 and 87: fillna(50.0).
FILL_VALUE == 50

\* datetime.fromtimestamp accepts instants up to 9999-12-31T23:59:59.999Z,
\* 253402300799999 ms, which is candle period 844674335.
MaxDatetimeCandle == 844674335

---------------------------------------------------------------------------
(* float64 arithmetic with NaN.                                            *)

IsNaN(x) == x = NaN

Add(a, b) == IF IsNaN(a) \/ IsNaN(b) THEN NaN ELSE a + b
Sub(a, b) == IF IsNaN(a) \/ IsNaN(b) THEN NaN ELSE a - b
Neg(a) == IF IsNaN(a) THEN NaN ELSE 0 - a
\* a / b on fixed-point values; the callers replace a zero divisor by NaN.
Div(a, b) == IF IsNaN(a) \/ IsNaN(b) THEN NaN ELSE (a * Scale) \div b
\* a * c for an integer literal c.
MulInt(a, c) == IF IsNaN(a) THEN NaN ELSE a * c

Lt(a, b) == ~IsNaN(a) /\ ~IsNaN(b) /\ a < b
Le(a, b) == ~IsNaN(a) /\ ~IsNaN(b) /\ a <= b
Gt(a, b) == Lt(b, a)
Ge(a, b) == Le(b, a)

\* A column with every element evaluated.
Col(f, n) == SubSeq(f, 1, n)

---------------------------------------------------------------------------
(* pandas Series operations used by the indicator functions.               *)

\* s.diff(): undefined at the first index.
diff(s) ==
    Col([i \in 1..Len(s) |-> IF i = 1 THEN NaN ELSE Sub(s[i], s[i - 1])], Len(s))

\* s.replace(0, np.nan)
replace_zero(s) ==
    Col([i \in 1..Len(s) |-> IF s[i] = 0 THEN NaN ELSE s[i]], Len(s))

RECURSIVE SumWindow(_, _, _)
SumWindow(s, lo, hi) ==
    IF lo > hi THEN 0 ELSE Add(s[hi], SumWindow(s, lo, hi - 1))

RECURSIVE MinWindow(_, _, _)
MinWindow(s, lo, hi) ==
    IF lo = hi THEN s[hi]
    ELSE LET m == MinWindow(s, lo, hi - 1)
         IN  IF IsNaN(m) \/ IsNaN(s[hi]) THEN NaN
             ELSE IF s[hi] < m THEN s[hi] ELSE m

RECURSIVE MaxWindow(_, _, _)
MaxWindow(s, lo, hi) ==
    IF lo = hi THEN s[hi]
    ELSE LET m == MaxWindow(s, lo, hi - 1)
         IN  IF IsNaN(m) \/ IsNaN(s[hi]) THEN NaN
             ELSE IF s[hi] > m THEN s[hi] ELSE m

\* rolling_mean with the divisor off by one.
rolling_mean_off_by_one(s, window) ==
    Col([i \in 1..Len(s) |->
            IF i < window THEN NaN
            ELSE LET t == SumWindow(s, i - window + 1, i)
                 IN  IF IsNaN(t) THEN NaN ELSE t \div (window - 1)], Len(s))

\* s.rolling(window).mean(): defined once `window` defined values are in
\* the trailing window (min_periods = window).
rolling_mean(s, window) ==
    Col([i \in 1..Len(s) |->
            IF i < window THEN NaN
            ELSE LET t == SumWindow(s, i - window + 1, i)
                 IN  IF IsNaN(t) THEN NaN ELSE t \div window], Len(s))

rolling_min(s, window) ==
    Col([i \in 1..Len(s) |->
            IF i < window THEN NaN ELSE MinWindow(s, i - window + 1, i)], Len(s))

rolling_max(s, window) ==
    Col([i \in 1..Len(s) |->
            IF i < window THEN NaN ELSE MaxWindow(s, i - window + 1, i)], Len(s))

\* s.ffill(): the last defined value is carried forward.
RECURSIVE ffill_to(_, _)
ffill_to(s, n) ==
    IF n = 0 THEN << >>
    ELSE LET p == ffill_to(s, n - 1)
         IN  Append(p, IF IsNaN(s[n]) /\ n > 1 THEN p[n - 1] ELSE s[n])

ffill(s) == ffill_to(s, Len(s))

\* s.fillna(v)
fillna(s, v) ==
    Col([i \in 1..Len(s) |-> IF IsNaN(s[i]) THEN v ELSE s[i]], Len(s))

\* ffill_fillna without the default for the undefined prefix.
ffill_only(s) == ffill(s)

\* .ffill().fillna(50.0) of lines 74, 86 and 87.
ffill_fillna(s) == fillna(ffill(s), FILL_VALUE * Scale)

RECURSIVE Pow(_, _)
Pow(b, e) == IF e = 0 THEN 1 ELSE b * Pow(b, e - 1)

\* s.ewm(span=span, adjust=False).mean(): alpha = 2/(span+1), seeded by the
\* first defined value.  acc = <<output so far, weighted average, number of
\* undefined values since the last defined one>>.  After `gap` undefined
\* values the old weight is (1-alpha)^(gap+1) and the result is normalised
\* by old weight + alpha; a value equal to the running average leaves it.
RECURSIVE ewm_to(_, _, _)
ewm_to(s, span, n) ==
    IF n = 0 THEN << << >>, NaN, 0 >>
    ELSE LET acc == ewm_to(s, span, n - 1)
             w   == acc[2]
             gap == acc[3]
             cur == s[n]
             ow  == Pow(span - 1, gap + 1)
             nw  == 2 * Pow(span + 1, gap)
             w2  == IF IsNaN(w) THEN cur
                    ELSE IF IsNaN(cur) \/ w = cur THEN w
                    ELSE (ow * w + nw * cur) \div (ow + nw)
             g2  == IF IsNaN(w) \/ ~IsNaN(cur) THEN 0 ELSE gap + 1
         IN  << Append(acc[1], w2), w2, g2 >>

ema(s, span) == ewm_to(s, span, Len(s))[1]

---------------------------------------------------------------------------
(* The indicator functions (lines 66-88).                                  *)

rsi(s, period) ==
    LET d      == diff(s)
        up     == Col([i \in 1..Len(s) |-> IF Gt(d[i], 0) THEN d[i] ELSE 0], Len(s))
        dn     == Col([i \in 1..Len(s) |-> IF Lt(d[i], 0) THEN Neg(d[i]) ELSE 0], Len(s))
        avg_up == rolling_mean(up, period)
        avg_dn == replace_zero(rolling_mean(dn, period))
        rs     == Col([i \in 1..Len(s) |-> Div(avg_up[i], avg_dn[i])], Len(s))
        out    == Col([i \in 1..Len(s) |->
                        Sub(100 * Scale, Div(100 * Scale, Add(Scale, rs[i])))], Len(s))
    IN  ffill_fillna(out)

macd(s, fast, slow, signal) ==
    LET ef == ema(s, fast)
        es == ema(s, slow)
        m  == Col([i \in 1..Len(s) |-> Sub(ef[i], es[i])], Len(s))
        sg == ema(m, signal)
    IN  [m |-> m, sg |-> sg]

stoch_rsi_from_rsi(rsi_s, period, k_s, d_s) ==
    LET n     == Len(rsi_s)
        min_r == rolling_min(rsi_s, period)
        max_r == rolling_max(rsi_s, period)
        denom == replace_zero(Col([i \in 1..n |-> Sub(max_r[i], min_r[i])], n))
        stoch == Col([i \in 1..n |->
                        MulInt(Div(Sub(rsi_s[i], min_r[i]), denom[i]), 100)], n)
        k     == ffill_fillna(rolling_mean(stoch, k_s))
        d     == ffill_fillna(rolling_mean(k, d_s))
    IN  [k |-> k, d |-> d]

---------------------------------------------------------------------------
(* The detector (lines 90-125).                                            *)

\* Python's None for the info payload is the empty sequence; a payload is a
\* one-element sequence holding the dict of lines 115-121.
NoInfo == << >>
NoSignal == "None"

\* min_candles without the margin of 5.
min_candles_no_margin ==
    IF MACD_SLOW >= RSI_PERIOD THEN MACD_SLOW ELSE RSI_PERIOD

\* max(MACD_SLOW, RSI_PERIOD) + 5 of line 91.
min_candles ==
    (IF MACD_SLOW >= RSI_PERIOD THEN MACD_SLOW ELSE RSI_PERIOD) + 5

\* Lines 98-100: the frame di, one row per candle.
join_columns(df, rsi14, mc, st) ==
    Col([i \in 1..Len(df) |->
          [timestamp |-> df[i].timestamp, close |-> df[i].close,
           rsi |-> rsi14[i], macd |-> mc.m[i], sig |-> mc.sg[i],
           k |-> st.k[i], d |-> st.d[i]]], Len(df))

\* Lines 95-100, from the close column and its RSI.
indicators_from_rsi(df, close, rsi14) ==
    join_columns(df, rsi14,
                 macd(close, MACD_FAST, MACD_SLOW, MACD_SIGNAL),
                 stoch_rsi_from_rsi(rsi14, STOCH_RSI_PERIOD, STOCH_K_SMOOTH,
                                    STOCH_D_SMOOTH))

\* df["close"] of line 93.
close_of(df) == Col([i \in 1..Len(df) |-> df[i].close], Len(df))

\* Lines 93-100.
indicator_frame(df) ==
    indicators_from_rsi(df, close_of(df), rsi(close_of(df), RSI_PERIOD))

\* Lines 105, 107, 109, 112.
long_ok(prev, curr) ==
    /\ Le(prev.macd, prev.sig) /\ Gt(curr.macd, curr.sig)
    /\ Le(prev.k, prev.d) /\ Gt(curr.k, curr.d)
    /\ Lt(prev.k, K_OVERSOLD * Scale)
    /\ Ge(curr.rsi, RSI_FILTER * Scale)

\* short_ok with the RSI filter strict.
short_ok_strict_rsi(prev, curr) ==
    /\ Ge(prev.macd, prev.sig) /\ Lt(curr.macd, curr.sig)
    /\ Ge(prev.k, prev.d) /\ Lt(curr.k, curr.d)
    /\ Gt(prev.k, K_OVERBOUGHT * Scale)
    /\ Lt(curr.rsi, RSI_FILTER * Scale)

\* Lines 106, 108, 110, 113.
short_ok(prev, curr) ==
    /\ Ge(prev.macd, prev.sig) /\ Lt(curr.macd, curr.sig)
    /\ Ge(prev.k, prev.d) /\ Lt(curr.k, curr.d)
    /\ Gt(prev.k, K_OVERBOUGHT * Scale)
    /\ Le(curr.rsi, RSI_FILTER * Scale)

\* Lines 102-125 on the frame di.  exc names the exception that leaves
\* the function: int(curr["timestamp"]) of line 116 raises ValueError on an
\* undefined timestamp.
detect(di) ==
    LET prev == di[Len(di) - 1]
        curr == di[Len(di)]
    IN  IF IsNaN(curr.timestamp)
        THEN [exc |-> "ValueError", signal |-> NoSignal, info |-> NoInfo, di |-> di]
        ELSE [exc    |-> "none",
              signal |-> IF long_ok(prev, curr) THEN "LONG"
                         ELSE IF short_ok(prev, curr) THEN "SHORT"
                         ELSE NoSignal,
              info   |-> << [ts |-> curr.timestamp, px |-> curr.close,
                             macd |-> curr.macd, sig |-> curr.sig,
                             k |-> curr.k, d |-> curr.d, rsi |-> curr.rsi] >>,
              di     |-> di]

\* check_signal(df): lines 91-92, then the rest.
check_signal(df) ==
    IF Len(df) = 0 \/ Len(df) < min_candles
    THEN [exc |-> "none", signal |-> NoSignal, info |-> NoInfo, di |-> << >>]
    ELSE detect(indicator_frame(df))

---------------------------------------------------------------------------
(* The candle fetch (lines 41-61).                                         *)

\* A field of a response row that pd.to_numeric(errors="coerce") cannot
\* read as a number (line 52), or that the row lacks.
NonNumeric == -1

to_numeric(x) == IF x = NonNumeric THEN NaN ELSE x

\* sort_values("klineTime") of line 53: ascending, undefined keys last.
\* SortRank(rows, i) is the position row i takes.
KeyBefore(a, b) == ~IsNaN(a) /\ (IsNaN(b) \/ a < b)

SortRank(keys, i) ==
    1 + Cardinality({j \in 1..Len(keys) :
            \/ KeyBefore(keys[j], keys[i])
            \/ (~KeyBefore(keys[i], keys[j]) /\ j < i)})

sort_values(rows, keys) ==
    LET n    == Len(rows)
        rank == Col([i \in 1..n |-> SortRank(keys, i)], n)
    IN  Col([r \in 1..n |-> rows[CHOOSE i \in 1..n : rank[i] = r]], n)

\* fetch_kline(...) for one answer of the endpoint.  resp.kind is
\*   "neterr": requests.get or r.json() raises (caught at line 59);
\*   "nodata": the payload holds no data / dataList (lines 46-48);
\*   "nocol" : the rows lack a column the frame is built from, so that
\*             line 53-57 raises KeyError (caught at line 59);
\*   "rows"  : rows with klineTime and close (open, high, low and size are
\*             carried along and never read by the detector).
\* The close column is a float64: Scale units per 1.0.
fetch_kline(resp) ==
    IF resp.kind # "rows" \/ Len(resp.rows) = 0 THEN << >>
    ELSE LET n    == Len(resp.rows)
             num  == Col([i \in 1..n |->
                        [timestamp |-> to_numeric(resp.rows[i].klineTime),
                         close     |-> MulInt(to_numeric(resp.rows[i].close), Scale)]], n)
             keys == Col([i \in 1..n |-> num[i].timestamp], n)
         IN  sort_values(num, keys)

---------------------------------------------------------------------------
(* The notification (lines 31-39).                                         *)

\* ts_local(ms): datetime.fromtimestamp raises ValueError past year 9999.
ts_local_raises(ts) == ts > MaxDatetimeCandle

\* tg_send without the try/except of lines 35 and 38.
tg_send_propagates(delivered) == IF delivered THEN "returned" ELSE "raised"

\* tg_send(text): the outcome of the call for the caller.  `delivered` is
\* whether requests.post(...).raise_for_status() went through; a failure is
\* caught and printed (lines 38-39).
tg_send(delivered) == "returned"

\* should_alert without the look-up in the dedup set.
should_alert_no_dedup(sig, inf, alerted) ==
    sig # NoSignal /\ inf # NoInfo

\* The condition of line 135.
should_alert(sig, inf, alerted) ==
    sig # NoSignal /\ inf # NoInfo /\ inf[1].ts \notin alerted

\* is_empty that never sees an empty frame.
is_empty_never(frame) == FALSE

\* df.empty of line 132.
is_empty(frame) == Len(frame) = 0

---------------------------------------------------------------------------
(* The inputs: what the endpoint answers.                                  *)

\* Bounds of the close series the endpoint is made to answer with.
MaxLead == 11
MaxJump == 7
\* The candle period of the present (2025), and the one after it.
NowCandle == 5870000

\* The middle leg ends where the slow EMA window does.
MidLen == MACD_SLOW - MaxLead
Slopes == {-1, 0, 1}
Leads == (MaxLead - 2)..MaxLead
Tails == {3, 5}
Jumps == {j \in (0 - MaxJump)..MaxJump : j = 0 \/ j >= MaxJump - 1 \/ j <= 1 - MaxJump}

\* A close series in four legs: `lead` candles of slope s1, MidLen of slope
\* s2, `tail` of slope s3 and a last candle that moves by `jump`.
Shapes ==
    [lead : Leads, s1 : Slopes, s2 : Slopes, tail : Tails, s3 : Slopes, jump : Jumps]

Clamp(x, hi) == IF x < 0 THEN 0 ELSE IF x > hi THEN hi ELSE x

ShapeLen(sh) == 1 + sh.lead + MidLen + sh.tail + 1

ShapeClose(sh, i) ==
    50 + sh.s1 * Clamp(i - 1, sh.lead)
       + sh.s2 * Clamp(i - 1 - sh.lead, MidLen)
       + sh.s3 * Clamp(i - 1 - sh.lead - MidLen, sh.tail)
       + sh.jump * Clamp(i - 1 - sh.lead - MidLen - sh.tail, 1)

\* The rows of a response: candle i of n has klineTime last - n + i.  `bad`
\* names the field of one row that is not a number ("none": all are), `row`
\* that row ("first" or "last"), `order` the order the rows arrive in.
Rows(sh, last, bad, row, order) ==
    LET n   == ShapeLen(sh)
        b   == IF row = "first" THEN 1 ELSE n
        asc == [i \in 1..n |->
                  [klineTime |-> IF bad = "klineTime" /\ i = b THEN NonNumeric
                                 ELSE last - n + i,
                   close     |-> IF bad = "close" /\ i = b THEN NonNumeric
                                 ELSE ShapeClose(sh, i)]]
    IN  Col([i \in 1..n |-> IF order = "asc" THEN asc[i] ELSE asc[n + 1 - i]], n)

RowsResponse(sh, last, bad, row, order) ==
    [kind |-> "rows", rows |-> Rows(sh, last, bad, row, order)]

LongShape ==
    [lead |-> MaxLead, s1 |-> 0, s2 |-> 0, tail |-> 3, s3 |-> -1, jump |-> MaxJump]
ShortShape ==
    [lead |-> MaxLead, s1 |-> 0, s2 |-> 1, tail |-> 3, s3 |-> -1, jump |-> 0 - MaxJump]
FlatShape ==
    [lead |-> MaxLead, s1 |-> 0, s2 |-> 0, tail |-> 3, s3 |-> 0, jump |-> 0]
RisingShape ==
    [lead |-> MaxLead, s1 |-> 1, s2 |-> 1, tail |-> 3, s3 |-> 1, jump |-> MaxJump]
TooShortShape ==
    [lead |-> MaxLead - 2, s1 |-> 0, s2 |-> 0, tail |-> 3, s3 |-> -1, jump |-> MaxJump]

FlatLongShape ==
    [lead |-> MaxLead, s1 |-> 0, s2 |-> 0, tail |-> 5, s3 |-> 0, jump |-> 0]

MainShapes ==
    {LongShape, ShortShape, FlatShape, FlatLongShape, RisingShape, TooShortShape}

LastTimes == {NowCandle, NowCandle + 1, MaxDatetimeCandle + 1}

Defects == {<<"none", "last">>, <<"klineTime", "first">>, <<"klineTime", "last">>,
            <<"close", "first">>, <<"close", "last">>}

\* What the endpoint answers in the polling loop.
Responses ==
    {[kind |-> k, rows |-> << >>] : k \in {"neterr", "nodata", "nocol"}}
    \cup {RowsResponse(sh, last, defect[1], defect[2], order) :
            sh \in MainShapes, last \in LastTimes, defect \in Defects,
            order \in {"asc", "desc"}}

\* The series the detector is applied to on its own: every shape, with
\* every timestamp defined and at most one undefined close.
DetectorFrames ==
    {fetch_kline(RowsResponse(sh, NowCandle, defect[1], defect[2], "asc")) :
        sh \in Shapes, defect \in {d \in Defects : d[1] # "klineTime"}}

---------------------------------------------------------------------------
(* The polling loop main() (lines 127-146).                                *)

VARIABLES
    pc,                   \* where main() is: "fetch" (line 131), "fetched"
                          \* (132), "checked" (135), "sent" (145), "sleep"
                          \* (133, 146), "raised" (an exception left main)
    last_alerted_candle,  \* the set of line 129
    df,                   \* the frame of line 131
    signal, info,         \* the pair of line 134
    di,                   \* the frame check_signal built (lines 98-100)
    exc,                  \* the exception that left main, or "none"
    called,               \* check_signal was called in this cycle
    sent,                 \* history: the tg_send calls, [ts, delivered]
    only_empty            \* history: every fetch so far gave an empty frame

vars == <<pc, last_alerted_candle, df, signal, info, di, exc, called, sent, only_empty>>

Init ==
    /\ pc = "fetch"
    /\ last_alerted_candle = {}
    /\ df = << >>
    /\ signal = NoSignal
    /\ info = NoInfo
    /\ di = << >>
    /\ exc = "none"
    /\ called = FALSE
    /\ sent = << >>
    /\ only_empty = TRUE

\* Line 131.
Fetch ==
    /\ pc = "fetch"
    /\ \E resp \in Responses :
          /\ df' = fetch_kline(resp)
          /\ only_empty' = (only_empty /\ is_empty(df'))
    /\ pc' = "fetched"
    /\ UNCHANGED <<last_alerted_candle, signal, info, di, exc, called, sent>>

\* Lines 132-133, up to the sleep.
SkipCycle ==
    /\ pc = "fetched"
    /\ is_empty(df)
    /\ pc' = "sleep"
    /\ UNCHANGED <<last_alerted_candle, df, signal, info, di, exc, called, sent, only_empty>>

\* The call of check_signal and what it leaves behind.
DoCheck ==
    \E r \in {check_signal(df)} :
        /\ signal' = r.signal
        /\ info' = r.info
        /\ di' = r.di
        /\ exc' = r.exc
        /\ called' = TRUE
        /\ pc' = IF r.exc = "none" THEN "checked" ELSE "raised"
        /\ UNCHANGED <<last_alerted_candle, df, sent, only_empty>>

\* Line 134.
CheckSignal ==
    /\ pc = "fetched"
    /\ ~is_empty(df)
    /\ DoCheck

\* Lines 135-144: the message is formatted (ts_local, line 142), then sent.
Notify ==
    /\ pc = "checked"
    /\ should_alert(signal, info, last_alerted_candle)
    /\ IF ts_local_raises(info[1].ts)
       THEN /\ pc' = "raised"
            /\ exc' = "ValueError"
            /\ UNCHANGED sent
       ELSE \E delivered \in BOOLEAN :
            /\ sent' = Append(sent, [ts |-> info[1].ts, delivered |-> delivered])
            /\ pc' = IF tg_send(delivered) = "returned" THEN "sent" ELSE "raised"
            /\ exc' = IF tg_send(delivered) = "returned" THEN "none" ELSE "HTTPError"
    /\ UNCHANGED <<last_alerted_candle, df, signal, info, di, called, only_empty>>

\* Line 145.
MarkAlerted ==
    /\ pc = "sent"
    /\ last_alerted_candle' = last_alerted_candle \cup {info[1].ts}
    /\ pc' = "sleep"
    /\ UNCHANGED <<df, signal, info, di, exc, called, sent, only_empty>>

\* Line 135 false: on to line 146.
NoAlert ==
    /\ pc = "checked"
    /\ ~should_alert(signal, info, last_alerted_candle)
    /\ pc' = "sleep"
    /\ UNCHANGED <<last_alerted_candle, df, signal, info, di, exc, called, sent, only_empty>>

\* time.sleep(POLL_SEC) and back to line 131.  The locals of the cycle are
\* rebound before they are read again; they are cleared here.
Sleep ==
    /\ pc = "sleep"
    /\ pc' = "fetch"
    /\ df' = << >>
    /\ signal' = NoSignal
    /\ info' = NoInfo
    /\ di' = << >>
    /\ called' = FALSE
    /\ UNCHANGED <<last_alerted_candle, exc, sent, only_empty>>

Next ==
    \/ Fetch
    \/ SkipCycle
    \/ CheckSignal
    \/ Notify
    \/ MarkAlerted
    \/ NoAlert
    \/ Sleep

Spec == Init /\ [][Next]_vars

---------------------------------------------------------------------------
(* The detector on its own: check_signal applied to one series.            *)

InitDetector ==
    /\ pc = "fetched"
    /\ last_alerted_candle = {}
    /\ df \in DetectorFrames
    /\ signal = NoSignal
    /\ info = NoInfo
    /\ di = << >>
    /\ exc = "none"
    /\ called = FALSE
    /\ sent = << >>
    /\ only_empty = FALSE

CheckDetector ==
    /\ pc = "fetched"
    /\ DoCheck

SpecDetector == InitDetector /\ [][CheckDetector]_vars

---------------------------------------------------------------------------
(* Properties.                                                             *)

SentTs == {sent[i].ts : i \in 1..Len(sent)}

LastRow == di[Len(di)]
PrevRow == di[Len(di) - 1]

ClosesDefined == \A i \in 1..Len(df) : ~IsNaN(df[i].close)
FlatCloses == ClosesDefined /\ \A i \in 1..Len(df) : df[i].close = df[1].close
RisingCloses ==
    ClosesDefined /\ \A i \in 2..Len(df) : df[i].close > df[i - 1].close

\* C1: in every run of main(), whatever is fetched and whether or not the
\* sends succeed, tg_send is called at most once for any candle timestamp.
C1_AtMostOneSendPerCandle ==
    \A i, j \in 1..Len(sent) : sent[i].ts = sent[j].ts => i = j

\* A candle that was alerted is fetched again, a direction is detected again
\* and line 135 holds the alert back.
C1_Witness ==
    /\ pc = "checked"
    /\ signal # NoSignal
    /\ \E i \in 1..Len(sent) : sent[i].ts = info[1].ts

\* C2: for a series of 31 or more candles, with prev and curr its last two
\* indicator rows, check_signal returns LONG exactly when MACD crosses up
\* (prev.macd <= prev.sig, curr.macd > curr.sig), K crosses up (prev.k <=
\* prev.d, curr.k > curr.d), prev.k < 20 and curr.rsi >= 50; SHORT exactly
\* when MACD crosses down, K crosses down, prev.k > 80 and curr.rsi <= 50;
\* and no direction otherwise.
C2_DirectionRule ==
    (pc = "checked" /\ Len(df) >= 31) =>
        LET p == PrevRow
            c == LastRow
            def == \A x \in {p.macd, p.sig, p.k, p.d, c.macd, c.sig, c.k, c.d, c.rsi} :
                        x # NaN
            long == /\ def
                    /\ p.macd <= p.sig /\ c.macd > c.sig
                    /\ p.k <= p.d /\ c.k > c.d
                    /\ p.k < 20 * Scale
                    /\ c.rsi >= 50 * Scale
            short == /\ def
                     /\ p.macd >= p.sig /\ c.macd < c.sig
                     /\ p.k >= p.d /\ c.k < c.d
                     /\ p.k > 80 * Scale
                     /\ c.rsi <= 50 * Scale
        IN  /\ (signal = "LONG") <=> long
            /\ (signal = "SHORT") <=> short
            /\ (signal = NoSignal) <=> (~long /\ ~short)

\* SHORT is returned with the RSI of the last candle on the filter value.
C2_Witness ==
    /\ pc = "checked"
    /\ signal = "SHORT"
    /\ LastRow.rsi = 50 * Scale
    /\ PrevRow.k > 80 * Scale

\* C3: check_signal returns neither a direction nor an info payload exactly
\* when the series has fewer than 31 candles; for 31 candles or more it
\* returns the payload of the last candle, with or without a direction.
C3_InsufficientData ==
    pc = "checked" =>
        /\ (signal = NoSignal /\ info = NoInfo) <=> (Len(df) < 31)
        /\ Len(df) < 31 => signal = NoSignal
        /\ Len(df) >= 31 =>
              /\ info # NoInfo
              /\ info[1].ts = df[Len(df)].timestamp
              /\ info[1].px = df[Len(df)].close
              /\ info[1].rsi = LastRow.rsi /\ info[1].macd = LastRow.macd
              /\ info[1].sig = LastRow.sig
              /\ info[1].k = LastRow.k /\ info[1].d = LastRow.d

\* A series one candle short of the minimum went through check_signal.
C3_Witness ==
    pc = "checked" /\ Len(df) = 30 /\ info = NoInfo

\* C4: no exception leaves a polling cycle of main(), whatever the
\* endpoint answers.
C4_NoExceptionLeavesCycle == pc # "raised"

\* C5: for a strictly rising close series longer than the RSI period, the
\* RSI is 100 wherever the trailing window is full.
C5_RisingRsiIs100 ==
    (di # << >> /\ RisingCloses) =>
        \A i \in 1..Len(di) : i > RSI_PERIOD => di[i].rsi = 100 * Scale

\* C6: when a send fails, tg_send swallows the failure, the timestamp is
\* added to the dedup set in that cycle (the only state in which it is not
\* yet there is the one between the return of tg_send and line 145), and no
\* later cycle sends for that timestamp again.
C6_FailedSendStillMarked ==
    \A i \in 1..Len(sent) :
        ~sent[i].delivered =>
            /\ \/ sent[i].ts \in last_alerted_candle
               \/ (pc = "sent" /\ i = Len(sent))
            /\ \A j \in 1..Len(sent) : sent[j].ts = sent[i].ts => j = i

\* A candle whose send failed in an earlier cycle is fetched again and a
\* direction is detected for it.
C6_Witness ==
    /\ pc = "checked"
    /\ signal # NoSignal
    /\ \E i \in 1..Len(sent) : ~sent[i].delivered /\ sent[i].ts = info[1].ts

\* C7: a cycle whose fetch gave an empty frame goes to the sleep without
\* calling check_signal, without a send and with the dedup set as it was,
\* and from the sleep to the next fetch; a run that fetched only empty
\* frames has sent nothing and raised nothing.
C7_EmptyFetchSkipsCycle ==
    /\ [][(pc = "fetched" /\ df = << >>) =>
            /\ pc' = "sleep"
            /\ ~called'
            /\ sent' = sent
            /\ last_alerted_candle' = last_alerted_candle]_vars
    /\ [][pc = "sleep" => pc' = "fetch"]_vars
    /\ [](only_empty => (sent = << >> /\ pc # "raised" /\ ~called
                         /\ last_alerted_candle = {}))

\* A cycle is skipped after an earlier cycle alerted.
C7_Witness ==
    pc = "sleep" /\ df = << >> /\ last_alerted_candle # {}

\* C8: for a series of 31 or more equal closes, RSI = K = D = 50 and MACD
\* line = MACD signal at every index, check_signal returns no direction and
\* the cycle sends nothing.
C8_FlatSeriesIsNeutral ==
    (FlatCloses /\ Len(df) >= 31 /\ called) =>
        /\ Len(di) = Len(df)
        /\ \A i \in 1..Len(di) :
              /\ di[i].rsi = 50 * Scale
              /\ di[i].k = 50 * Scale
              /\ di[i].d = 50 * Scale
              /\ di[i].macd = di[i].sig
        /\ signal = NoSignal
        /\ pc # "sent"

\* A flat series of 31 candles or more went through check_signal.
C8_Witness ==
    pc = "checked" /\ FlatCloses /\ Len(df) >= 31

\* C9: for a close series of defined numbers, RSI, K and D are defined and
\* in [0, 100] at every index.
C9_OscillatorsInRange ==
    (di # << >> /\ ClosesDefined) =>
        \A i \in 1..Len(di) :
            \A x \in {di[i].rsi, di[i].k, di[i].d} :
                x # NaN /\ 0 <= x /\ x <= 100 * Scale

\* A series on which RSI reaches 0 and K reaches both ends of its range.
C9_Witness ==
    /\ di # << >>
    /\ ClosesDefined
    /\ \E i \in 1..Len(di) : di[i].rsi = 0
    /\ \E i \in 1..Len(di) : di[i].k = 100 * Scale
    /\ \E i \in 1..Len(di) : di[i].k = 0

\* C10: the dedup set never loses an element and gains the timestamp of a
\* cycle only after the tg_send of that cycle returned: outside the state
\* between that return and line 145 it is the set of timestamps a send was
\* attempted for; and a cycle in which a direction was returned for a
\* timestamp not in the set attempts a send.
C10_DedupSetTracksAttempts ==
    /\ pc \in {"fetch", "fetched", "checked", "sleep"} =>
          last_alerted_candle = SentTs
    /\ pc = "sent" =>
          /\ info[1].ts \notin last_alerted_candle
          /\ last_alerted_candle \cup {info[1].ts} = SentTs
    /\ (pc \in {"sleep", "raised"} /\ signal # NoSignal /\ info # NoInfo) =>
          info[1].ts \in SentTs

=============================================================================
